---- MODULE Spec2Model ----
(***************************************************************************)
(* Circular slider widget (src/slider.js): configuration normalisation,    *)
(* geometry, snapping and the per-slider drag state machine.               *)
(*                                                                         *)
(* Sizes, widths, value ranges and pointer coordinates are whole numbers   *)
(* (sizes and widths even, so that every pixel coordinate is whole).       *)
(* Angles and values are JavaScript numbers, modelled as exact rationals   *)
(* n/d together with the two non-numbers NaN and undefined; arithmetic is  *)
(* exact (floating point rounding noise is not modelled).                  *)
(***************************************************************************)
EXTENDS Integers, Sequences, FiniteSets, TLC

VARIABLES
    data,         \* normalised, sorted slider configs (closure var `data`)
    max_size,     \* closure var `max_size`
    svg,          \* width and height of the svg node and of its container
    sliders,      \* closure var `sliders`: the list move_handle/mouseup iterate
    slider_data,  \* sl.slider_data of every slider node (this.sliders)
    translate,    \* the handle's transform translation, per slider
    arc,          \* sweep end handed to describeArc for the active arcs
    labels,       \* text written by update_dom_data, per slider class
    mouse,        \* closure var `mouse`
    ev,           \* the event dispatched last
    touch,        \* the slider the active touch started on, 0 when none
    arg,          \* argument of the pure function under check
    ret           \* its result

vars == <<data, max_size, svg, sliders, slider_data, translate, arc, labels,
          mouse, ev, touch, arg, ret>>

-----------------------------------------------------------------------------
(* Bounds of the model *)

\* largest number of configs handed to the constructor
MaxSliders == 2

\* largest value range (max - min) tried on snap_to_angle
MaxRange == 6

-----------------------------------------------------------------------------
(* JavaScript numbers *)

RECURSIVE GCD(_, _)
GCD(x, y) == IF y = 0 THEN x ELSE GCD(y, x % y)

NaN == [k |-> "nan", n |-> 0, d |-> 1]

Undefined == [k |-> "undefined", n |-> 0, d |-> 1]

\* the rational n/d (d # 0) in lowest terms with a positive denominator
Rat(n, d) ==
    LET g == GCD(IF n < 0 THEN -n ELSE n, IF d < 0 THEN -d ELSE d)
        s == IF d < 0 THEN -1 ELSE 1
    IN  [k |-> "num", n |-> s * (n \div g), d |-> s * (d \div g)]

Num(i) == [k |-> "num", n |-> i, d |-> 1]

IsNum(x) == x.k = "num"

\* truthiness of a number: undefined, NaN and 0 are falsy
Truthy(x) == x.k = "num" /\ x.n # 0

\* Number.prototype.toFixed(2) of a number that is not negative, as a count
\* of hundredths (halves rounded up)
ToFixed2(x) == (200 * x.n + x.d) \div (2 * x.d)

-----------------------------------------------------------------------------
(* Geometry *)

\* a point whose coordinates are undefined (clientX, clientY of a touch event)
UndefinedPt == [def |-> FALSE, x |-> 0, y |-> 0]

Pt(x, y) == [def |-> TRUE, x |-> x, y |-> y]

NaNCoord == [k |-> "nan", base |-> 0, r |-> 0, t |-> Num(0)]

\* c + radius * Math.cos(deg in degrees).  The cosine is exact at the
\* multiples of 90 degrees; any other is kept as the term cos(t), with t
\* folded into (0, 180), where the cosine is one-to-one: the coordinate
\* is base + r * cos(t).
Coord(c, radius, deg) ==
    LET f == deg.n % (360 * deg.d)
        t == IF f > 180 * deg.d THEN Rat(360 * deg.d - f, deg.d)
             ELSE Rat(f, deg.d)
    IN  IF deg.k # "num" THEN NaNCoord
        ELSE IF t = Num(0) THEN [k |-> "num", base |-> c + radius, r |-> 0, t |-> Num(0)]
        ELSE IF t = Num(90) THEN [k |-> "num", base |-> c, r |-> 0, t |-> Num(0)]
        ELSE IF t = Num(180) THEN [k |-> "num", base |-> c - radius, r |-> 0, t |-> Num(0)]
        ELSE [k |-> "num", base |-> c, r |-> radius, t |-> t]

\* radians = (degrees - 90) * PI / 180; x = cX + radius * cos(radians),
\* y = cY + radius * sin(radians), and sin(v) = cos(v - 90 degrees)
polarToCartesian(cX, cY, radius, degrees) ==
    [x |-> Coord(cX, radius, [degrees EXCEPT !.n = @ - 90 * degrees.d]),
     y |-> Coord(cY, radius, [degrees EXCEPT !.n = @ - 180 * degrees.d])]

\* Math.acos(num / sqrt(den2)) in degrees, for the cosines whose angle is a
\* whole number of degrees; den2 = 0 is the division by zero of find_angle
\* (0/0, or an infinity, of which Math.acos is NaN as well)
AcosDeg(num, den2) ==
    IF den2 = 0 THEN NaN
    ELSE CASE num * num = den2         -> IF num > 0 THEN Num(0) ELSE Num(180)
           [] 4 * num * num = 3 * den2 -> IF num > 0 THEN Num(30) ELSE Num(150)
           [] 2 * num * num = den2     -> IF num > 0 THEN Num(45) ELSE Num(135)
           [] 4 * num * num = den2     -> IF num > 0 THEN Num(60) ELSE Num(120)
           [] num = 0                  -> Num(90)

Dist2(p, q) == (p.x - q.x) * (p.x - q.x) + (p.y - q.y) * (p.y - q.y)

\* ab, bc and ac are kept squared: (bc*bc + ab*ab - ac*ac) / (2*bc*ab) is
\* num / sqrt(4 * bc2 * ab2).  An undefined coordinate makes every side NaN.
find_angle(a, b, c) ==
    LET ab2 == Dist2(b, a)
        bc2 == Dist2(b, c)
        ac2 == Dist2(c, a)
        degrees == AcosDeg(bc2 + ab2 - ac2, 4 * bc2 * ab2)
    IN  IF ~(a.def /\ b.def /\ c.def) THEN NaN
        ELSE IF degrees.k # "num" THEN NaN
        ELSE IF a.x < c.x THEN degrees
        ELSE Num(180 - degrees.n + 180)

\* Math.floor in place of Math.round
snap_to_angle_floor(angle, min, max, step) ==
    IF step = 0 \/ angle.k # "num" THEN angle
    ELSE LET qn == angle.n * (max - min)
             qd == angle.d * 360 * step
             snap_step == qn \div qd
         IN  Rat(360 * step * snap_step, max - min)

\* nsteps = (max-min)/step, angle_step = 360/nsteps = 360*step/(max-min),
\* angle/angle_step = qn/qd, Math.round(q) = floor(q + 1/2)
snap_to_angle(angle, min, max, step) ==
    IF step = 0 \/ angle.k # "num" THEN angle
    ELSE LET qn == angle.n * (max - min)
             qd == angle.d * 360 * step
             snap_step == (2 * qn + qd) \div (2 * qd)
         IN  Rat(360 * step * snap_step, max - min)

-----------------------------------------------------------------------------
(* Configuration *)

default_data ==
    [name         |-> "Whatever",
     size         |-> 100,
     width        |-> 10,
     dash         |-> 6,
     gap          |-> 2,
     rotate       |-> 0,
     min_value    |-> 100,
     max_value    |-> 200,
     step         |-> 0,
     gap_color    |-> "#977fa1",
     color        |-> "#5f3b6f",
     bg_gap_color |-> "#d7d7d7",
     bg_color     |-> "#c8c8c8"]

TextFields == {"name", "gap_color", "color", "bg_gap_color", "bg_color"}

\* item[k] = item[k] || default_data[k]
populate_falsy(item) ==
    [k \in DOMAIN default_data \cup DOMAIN item |->
        IF k \in DOMAIN item
           /\ (IF k \in TextFields THEN item[k] # "" ELSE item[k] # 0)
        THEN item[k]
        ELSE default_data[k]]

\* the callback of data.map: every key of default_data the item does not
\* own is copied from default_data; the item's own keys are left alone
populate(item) ==
    [k \in DOMAIN default_data \cup DOMAIN item |->
        IF k \in DOMAIN item THEN item[k] ELSE default_data[k]]

size_compare_asc(a, b) == IF a.size > b.size THEN 1 ELSE -1

\* the comparator handed to data.sort
size_compare(a, b) == IF a.size < b.size THEN 1 ELSE -1

IndexOrders(n) ==
    {p \in [1..n -> 1..n] : \A i, j \in 1..n : i # j => p[i] # p[j]}

\* data.sort(size_compare).  The comparator never answers 0, so on configs
\* of equal size it is inconsistent and the order of those is left to the
\* engine: every arrangement that agrees with all the comparator's answers
\* is a possible result.
sort_results(list) ==
    {[i \in 1..Len(list) |-> list[p[i]]] : p \in
        {q \in IndexOrders(Len(list)) :
            \A i, j \in 1..Len(list) :
                i < j => size_compare(list[q[i]], list[q[j]]) < 0}}

\* item.name.toLowerCase().replace(" ", "_"), for the names used here
slug(name) ==
    CASE name = "Whatever"  -> "whatever"
      [] name = "Cash"      -> "cash"
      [] name = "Fast Food" -> "fast_food"

with_class(item) ==
    [k \in DOMAIN item \cup {"class"} |->
        IF k = "class" THEN slug(item.name) ELSE item[k]]

-----------------------------------------------------------------------------
(* Construction *)

\* data.size/2 - data.width/2 - 2: the radius of a slider's arcs
radius(dd) == dd.size \div 2 - dd.width \div 2 - 2

\* pos(slider_container): the container is laid out at the page origin and
\* is given the width and height of the largest slider
pos_container(max) == Pt(max \div 2, max \div 2)

\* the translation mk_slider gives the handle:
\* (init_pos.y, -(init_pos.x - data.width/2 - 2))
init_translate(dd) ==
    LET init_pos == polarToCartesian(dd.size \div 2, dd.size \div 2,
                                     dd.size \div 2, Num(0))
    IN  [x |-> init_pos.y,
         y |-> [init_pos.x EXCEPT
                   !.base = -(init_pos.x.base - dd.width \div 2 - 2),
                   !.r = -init_pos.x.r]]

\* pos(handle): the centre of the handle circle (cx = cy = max_size/2)
\* moved by its translation, which is exact when pos(handle) is taken
pos_handle(max, tr) == Pt(max \div 2 + tr.x.base, max \div 2 + tr.y.base)

\* the items update_dom_data writes: angle and value with toFixed(2),
\* a falsy angle or value (undefined, NaN, 0) written as 0
dom_items(d) ==
    [angle |-> IF Truthy(d.angle) THEN ToFixed2(d.angle) ELSE 0,
     value |-> IF Truthy(d.value) THEN ToFixed2(d.value) ELSE 0]

\* slider_data as left by mk_slider: only `data` is set
bare_slider == [angle |-> Undefined, value |-> Undefined]

\* the fields the this.sliders.map callback sets
init_slider_data(dd, max) ==
    LET c == pos_container(max)
        a == pos_handle(max, init_translate(dd))
        angle == find_angle(a, c, a)
    IN  [rotating   |-> FALSE,
         halt       |-> "",
         c          |-> c,
         a          |-> a,
         m          |-> a,
         angle      |-> angle,
         handle_pos |-> polarToCartesian(dd.size, dd.size, radius(dd), angle),
         value      |-> Undefined]

Range(s) == {s[i] : i \in DOMAIN s}

\* update_dom_data for the sliders of `order` in turn: the elements are
\* found by class name, so sliders of one class share them
RECURSIVE write_labels(_, _, _, _)
write_labels(lab, order, dat, sd) ==
    IF order = <<>> THEN lab
    ELSE write_labels([lab EXCEPT ![dat[Head(order)].class] =
                                        dom_items(sd[Head(order)])],
                      Tail(order), dat, sd)

\* what the constructor may be handed
ConfigPool ==
    {[name |-> "Cash"],
     [name |-> "Fast Food", size |-> 60, min_value |-> 0,
      max_value |-> 100, step |-> 10]}

Inputs == UNION {[1..n -> ConfigPool] : n \in 1..MaxSliders}

NoCall == [fn |-> "none"]

\* width and height of the svg node and of the container: data[0].size
svg_size(dat) == [width |-> dat[1].size, height |-> dat[1].size]

NoEvent == [type |-> "none", target |-> 0, on |-> "none", p |-> UndefinedPt]

\* the state slider(id, input) leaves, for one of the orders the sort may give
Constructed(input, sorted) ==
    LET dat == [i \in DOMAIN sorted |-> with_class(sorted[i])]
        max == sorted[1].size
        n   == Len(sorted)
    IN  /\ data = dat
        /\ max_size = max
        /\ svg = svg_size(dat)
        /\ sliders = [i \in 1..n |-> i]
        /\ slider_data = [i \in 1..n |-> init_slider_data(dat[i], max)]
        /\ translate = [i \in 1..n |-> init_translate(dat[i])]
        /\ arc = [i \in 1..n |-> Rat(1, 10)]
        /\ labels = write_labels(
               [cl \in {dat[i].class : i \in 1..n} |-> dom_items(bare_slider)],
               [i \in 1..n |-> i], dat, [i \in 1..n |-> bare_slider])
        /\ mouse = Pt(0, 0)
        /\ ev = NoEvent
        /\ touch = 0

Init ==
    /\ \E input \in Inputs :
         \E sorted \in sort_results([i \in DOMAIN input |-> populate(input[i])]) :
            Constructed(input, sorted)
    /\ arg = NoCall
    /\ ret = NoCall

-----------------------------------------------------------------------------
(* Pointer positions and hit testing *)

\* offsets from the container centre, as multiples of a ring's radius:
\* straight up, and up-right on the diagonal
Directions == {<<0, -1>>, <<1, -1>>}

\* points on the ring of a slider: at the radius on the axes, and at 2/3 of
\* it on both axes for a diagonal, which is inside the stroke
ring_points(dd, max) ==
    {Pt(max \div 2 + dir[1] * (IF dir[1] # 0 /\ dir[2] # 0
                                THEN (2 * radius(dd)) \div 3 ELSE radius(dd)),
        max \div 2 + dir[2] * (IF dir[1] # 0 /\ dir[2] # 0
                                THEN (2 * radius(dd)) \div 3 ELSE radius(dd)))
     : dir \in Directions}

\* every pointer position tried: the ring points of all sliders
Pointers == UNION {ring_points(data[i], max_size) : i \in DOMAIN data}

\* p lies on the stroke of slider i's arcs: within width/2 of the radius
on_stroke(i, p) ==
    LET d2 == Dist2(p, pos_container(max_size))
        lo == radius(data[i]) - data[i].width \div 2
        hi == radius(data[i]) + data[i].width \div 2
    IN  lo * lo <= d2 /\ d2 <= hi * hi

\* the slider a pointer event at p is dispatched to: the one painted last
\* among those hit, 0 when none is hit
hit_slider(p) ==
    LET hit == {i \in DOMAIN data : on_stroke(i, p)}
    IN  IF hit = {} THEN 0 ELSE CHOOSE i \in hit : \A j \in hit : j <= i

\* the translation move_handle gives the handle for a snapped angle:
\* (cartesian_position.x - dd.size, cartesian_position.y - dd.size)
handle_translate(dd, angle) ==
    LET cartesian_position ==
            polarToCartesian(dd.size, dd.size, radius(dd), angle)
    IN  [x |-> [cartesian_position.x EXCEPT !.base = @ - dd.size],
         y |-> [cartesian_position.y EXCEPT !.base = @ - dd.size]]

snapped(d, dd) == snap_to_angle(d.angle, dd.min_value, dd.max_value, dd.step)

\* p is on the handle of slider i: on the ring, where the handle now is
on_handle(i, p) ==
    translate[i] =
        handle_translate(data[i],
            snap_to_angle(find_angle(slider_data[i].a, pos_container(max_size), p),
                          data[i].min_value, data[i].max_value, data[i].step))

-----------------------------------------------------------------------------
(* move_handle *)

\* the guard of the forEach body without the exemption of mousedown and
\* touchmove
acts_rotating(e, d) == d.rotating

\* the guard of the forEach body: the slider is rotating or the event is a
\* mousedown or a touchmove
acts(e, d) == d.rotating \/ e.type \in {"mousedown", "touchmove"}

\* the value taken from the mouse angle instead of the snapped one
moved_raw(d, dd, m) ==
    LET mouse_angle == find_angle(d.a, d.c, m)
        angle == snap_to_angle(mouse_angle, dd.min_value, dd.max_value, dd.step)
    IN  [d EXCEPT !.m = m,
                  !.angle = mouse_angle,
                  !.handle_pos = polarToCartesian(dd.size, dd.size,
                                                  radius(dd), angle),
                  !.value = IF mouse_angle.k # "num" THEN NaN
                            ELSE Rat((dd.max_value - dd.min_value) * mouse_angle.n
                                        + dd.min_value * 360 * mouse_angle.d,
                                     360 * mouse_angle.d)]

\* the assignments to slider_data in the forEach body; percent = 1/360 * angle,
\* value = (max_value - min_value) * percent + min_value
moved(d, dd, m) ==
    LET mouse_angle == find_angle(d.a, d.c, m)
        angle == snap_to_angle(mouse_angle, dd.min_value, dd.max_value, dd.step)
    IN  [d EXCEPT !.m = m,
                  !.angle = mouse_angle,
                  !.handle_pos = polarToCartesian(dd.size, dd.size,
                                                  radius(dd), angle),
                  !.value = IF angle.k # "num" THEN NaN
                            ELSE Rat((dd.max_value - dd.min_value) * angle.n
                                        + dd.min_value * 360 * angle.d,
                                     360 * angle.d)]

\* the sweep handed to describeArc: angle == 360 ? angle - 0.1 : angle
arc_sweep(angle) == IF angle = Num(360) THEN Rat(3599, 10) ELSE angle

\* the forEach of move_handle over `order`, from world w.  setTranslate
\* takes two (restricted) floats: handed a NaN it throws a TypeError, which
\* ends the pass with the handle, the arcs and the labels of that slider
\* untouched and the sliders after it not visited.
RECURSIVE for_each(_, _, _)
for_each(e, order, w) ==
    IF order = <<>> THEN w
    ELSE LET i  == Head(order)
             nd == moved(w.slider_data[i], data[i], w.mouse)
             sn == snapped(nd, data[i])
         IN  IF ~acts(e, w.slider_data[i]) THEN for_each(e, Tail(order), w)
             ELSE IF sn.k # "num"
             THEN [w EXCEPT !.slider_data[i] = nd]
             ELSE for_each(e, Tail(order),
                    [w EXCEPT !.slider_data[i] = nd,
                              !.translate[i] = handle_translate(data[i], sn),
                              !.arc[i] = arc_sweep(sn),
                              !.labels[data[i].class] = dom_items(nd)])

\* sliders = sl ? [sl] : sliders
narrowed(sl, list) == IF sl # 0 THEN <<sl>> ELSE list

World ==
    [sliders |-> sliders, slider_data |-> slider_data, translate |-> translate,
     arc |-> arc, labels |-> labels, mouse |-> mouse]

\* move_handle(e, sl), sl = 0 for the call without a slider.  The mouse
\* position is touches[0] of a touchmove, clientX/clientY of any other
\* event, which a touch event does not have.
move_handle(e, sl, w) ==
    for_each(e, narrowed(sl, w.sliders),
             [w EXCEPT !.mouse = IF e.type = "touchstart" THEN UndefinedPt
                                 ELSE e.p,
                       !.sliders = narrowed(sl, w.sliders)])

Becomes(w) ==
    /\ sliders' = w.sliders
    /\ slider_data' = w.slider_data
    /\ translate' = w.translate
    /\ arc' = w.arc
    /\ labels' = w.labels
    /\ mouse' = w.mouse

-----------------------------------------------------------------------------
(* Event listeners *)

\* the listener of the slider node for mousedown, touchstart and touchmove
body_listener(e, i, w) ==
    move_handle(e, i, [w EXCEPT !.slider_data[i].c = pos_container(max_size)])

\* the mousedown listener of the handle
handle_listener(i, w) ==
    [w EXCEPT !.slider_data[i].c = pos_container(max_size),
              !.slider_data[i].rotating = TRUE]

\* the mouseup / touchend listener of the document: sliders.map over the
\* closure variable
stop_rotation(w) ==
    [w EXCEPT !.slider_data =
        [i \in DOMAIN w.slider_data |->
            IF i \in Range(w.sliders)
            THEN [w.slider_data[i] EXCEPT !.rotating = FALSE]
            ELSE w.slider_data[i]]]

\* mousedown on the handle of slider i: the handle's listener, then the
\* slider node's as the event bubbles
HandleMouseDown(i, p) ==
    /\ i # 0
    /\ on_handle(i, p)
    /\ Becomes(body_listener([type |-> "mousedown", p |-> p], i,
                             handle_listener(i, World)))
    /\ ev' = [type |-> "mousedown", target |-> i, on |-> "handle", p |-> p]
    /\ UNCHANGED <<data, max_size, svg, touch, arg, ret>>

\* mousedown on the arcs of slider i
BodyMouseDown(i, p) ==
    /\ i # 0
    /\ ~on_handle(i, p)
    /\ Becomes(body_listener([type |-> "mousedown", p |-> p], i, World))
    /\ ev' = [type |-> "mousedown", target |-> i, on |-> "body", p |-> p]
    /\ UNCHANGED <<data, max_size, svg, touch, arg, ret>>

\* a touch starts on slider i
TouchStart(i, p) ==
    /\ touch = 0
    /\ i # 0
    /\ Becomes(body_listener([type |-> "touchstart", p |-> p], i, World))
    /\ touch' = i
    /\ ev' = [type |-> "touchstart", target |-> i, on |-> "body", p |-> p]
    /\ UNCHANGED <<data, max_size, svg, arg, ret>>

\* the touch moves: the event goes to the slider the touch started on,
\* wherever the finger now is
TouchMove(i, p) ==
    /\ i # 0
    /\ Becomes(body_listener([type |-> "touchmove", p |-> p], i, World))
    /\ ev' = [type |-> "touchmove", target |-> i, on |-> "body", p |-> p]
    /\ UNCHANGED <<data, max_size, svg, touch, arg, ret>>

\* mousemove anywhere: the document's listener, move_handle(e)
MouseMove(p) ==
    /\ Becomes(move_handle([type |-> "mousemove", p |-> p], 0, World))
    /\ ev' = [type |-> "mousemove", target |-> 0, on |-> "document", p |-> p]
    /\ UNCHANGED <<data, max_size, svg, touch, arg, ret>>

MouseUp ==
    /\ Becomes(stop_rotation(World))
    /\ ev' = [type |-> "mouseup", target |-> 0, on |-> "document",
              p |-> UndefinedPt]
    /\ UNCHANGED <<data, max_size, svg, touch, arg, ret>>

TouchEnd ==
    /\ touch # 0
    /\ Becomes(stop_rotation(World))
    /\ touch' = 0
    /\ ev' = [type |-> "touchend", target |-> 0, on |-> "document",
              p |-> UndefinedPt]
    /\ UNCHANGED <<data, max_size, svg, arg, ret>>

Next ==
    \/ \E p \in Pointers : HandleMouseDown(hit_slider(p), p)
    \/ \E p \in Pointers : BodyMouseDown(hit_slider(p), p)
    \/ \E p \in Pointers : TouchStart(hit_slider(p), p)
    \/ \E p \in Pointers : TouchMove(touch, p)
    \/ \E p \in Pointers : MouseMove(p)
    \/ MouseUp
    \/ TouchEnd

Spec == Init /\ [][Next]_vars

-----------------------------------------------------------------------------
(* The pure functions on their own: one call, its arguments in `arg`, its
   result in `ret`, next to a widget built from one config and left alone *)

MaxList == 3

Resting ==
    /\ Constructed(<<[name |-> "Cash"]>>, <<populate([name |-> "Cash"])>>)
    /\ ret = NoCall

widget == <<data, max_size, svg, sliders, slider_data, translate, arc, labels,
            mouse, ev, touch>>

\* snap_to_angle(angle, min, max, step) for whole angles of the full turn and
\* the steps that divide the range
SnapArgs ==
    {[fn |-> "snap_to_angle", angle |-> Num(x), min |-> lo, max |-> lo + range,
      step |-> step] :
        x \in 0..360, lo \in {-2, 0, 100},
        range \in 1..MaxRange, step \in 1..MaxRange}

SnapInit ==
    /\ Resting
    /\ arg \in {c \in SnapArgs : (c.max - c.min) % c.step = 0}

\* the call, and the call on its own result
SnapCall ==
    /\ arg.fn = "snap_to_angle"
    /\ ret = NoCall
    /\ ret' = [fn    |-> "snap_to_angle",
               out   |-> snap_to_angle(arg.angle, arg.min, arg.max, arg.step),
               again |-> snap_to_angle(
                            snap_to_angle(arg.angle, arg.min, arg.max, arg.step),
                            arg.min, arg.max, arg.step)]
    /\ UNCHANGED <<widget, arg>>

SnapNext == SnapCall

SnapSpec == SnapInit /\ [][SnapNext]_vars

\* a config as the caller may write it: any subset of the fields, the values
\* different from the defaults where they can be, some of them falsy
supplied ==
    [name |-> "Cash", size |-> 60, width |-> 4, dash |-> 0, gap |-> 0,
     rotate |-> 90, min_value |-> 0, max_value |-> 50, step |-> 5,
     gap_color |-> "", color |-> "#000000", bg_gap_color |-> "#111111",
     bg_color |-> "#222222"]

NormInit ==
    /\ Resting
    /\ \E S \in SUBSET DOMAIN supplied :
          arg = [fn |-> "populate", item |-> [k \in S |-> supplied[k]]]

\* the callback of data.map on one item
PopulateCall ==
    /\ arg.fn = "populate"
    /\ ret = NoCall
    /\ ret' = [fn |-> "populate", out |-> populate(arg.item)]
    /\ UNCHANGED <<widget, arg>>

NormNext == PopulateCall

NormSpec == NormInit /\ [][NormNext]_vars

\* lists of configs in every order, sizes repeated under different names
SortPool ==
    {[name |-> n, size |-> s] : n \in {"Cash", "Fast Food"}, s \in {60, 80, 100}}

SortInit ==
    /\ Resting
    /\ \E n \in 1..MaxList : \E list \in [1..n -> SortPool] :
          arg = [fn |-> "sort", list |-> list]

\* populate, sort, max_size, the push into this.sliders and the svg node, for
\* one of the orders the sort may give
SortCall ==
    /\ arg.fn = "sort"
    /\ ret = NoCall
    /\ \E sorted \in sort_results([i \in DOMAIN arg.list |->
                                        populate(arg.list[i])]) :
          LET dat == [i \in DOMAIN sorted |-> with_class(sorted[i])]
          IN  ret' = [fn |-> "sort", data |-> dat, max_size |-> sorted[1].size,
                      svg |-> svg_size(dat)]
    /\ UNCHANGED <<widget, arg>>

SortNext == SortCall

SortSpec == SortInit /\ [][SortNext]_vars

-----------------------------------------------------------------------------
(* Properties *)

Abs(i) == IF i < 0 THEN -i ELSE i

Updated(i) == slider_data[i].value.k # "undefined"

\* min + (q / 360) * (max - min), not a number when q is not one
ValueAt(dd, q) ==
    IF q.k # "num" THEN NaN
    ELSE Rat(dd.min_value * 360 * q.d + q.n * (dd.max_value - dd.min_value),
             360 * q.d)

\* x <= y for two numbers
Leq(x, y) == x.n * y.d <= y.n * x.d

\* C1: after a mouseup or a touchend on the document no slider of the
\* instance is rotating, whatever events came before.
C1_UpStopsEverySlider ==
    ev.type \in {"mouseup", "touchend"} =>
        \A i \in DOMAIN slider_data : ~slider_data[i].rotating

\* C2: on a mousemove of the document a slider is updated from the pointer
\* position if and only if it is rotating: a rotating slider takes the
\* pointer as its mouse point and the angle found for it, a slider that is
\* not rotating keeps its data and its handle where they were.
C2_MoveUpdatesExactlyTheRotating ==
    [][ev'.type = "mousemove" =>
          \A i \in DOMAIN slider_data :
             IF slider_data[i].rotating
             THEN /\ slider_data'[i].m = ev'.p
                  /\ slider_data'[i].angle =
                        find_angle(slider_data[i].a, slider_data[i].c, ev'.p)
             ELSE /\ slider_data'[i] = slider_data[i]
                  /\ translate'[i] = translate[i]]_vars

\* C3: the stored angle of every slider is always a number, at least 0 and
\* less than 360.
C3_AngleBelowFullTurn ==
    \A i \in DOMAIN slider_data :
        /\ IsNum(slider_data[i].angle)
        /\ Leq(Num(0), slider_data[i].angle)
        /\ slider_data[i].angle # Num(360)
        /\ Leq(slider_data[i].angle, Num(360))

\* C4: before any event every slider is idle, its handle is at the place of
\* angle 0, its stored angle is 0, and the value it holds and the value it
\* shows are min_value.
C4_StartsAtMinValue ==
    ev.type = "none" =>
        \A i \in DOMAIN slider_data :
            /\ ~slider_data[i].rotating
            /\ translate[i] = handle_translate(data[i], Num(0))
            /\ slider_data[i].angle = Num(0)
            /\ slider_data[i].value = Num(data[i].min_value)
            /\ labels[data[i].class].value = 100 * data[i].min_value

\* C5 as stated: the stored value of an updated slider is
\* min_value + (angle / 360) * (max_value - min_value) for its stored angle.
C5_ValueOfStoredAngle ==
    \A i \in DOMAIN slider_data :
        Updated(i) => slider_data[i].value = ValueAt(data[i], slider_data[i].angle)

\* C5: the stored value of an updated slider is
\* min_value + (s / 360) * (max_value - min_value), s being the stored angle
\* snapped to the step (the stored angle itself when step is 0); the value
\* is not a number exactly when the stored angle is not one.
C5_ValueOfSnappedAngle ==
    \A i \in DOMAIN slider_data :
        Updated(i) =>
            slider_data[i].value = ValueAt(data[i], snapped(slider_data[i], data[i]))

\* a slider with a step holds a value for an angle off the step grid
C5_OffGrid ==
    \E i \in DOMAIN slider_data :
        /\ Updated(i)
        /\ data[i].step # 0
        /\ IsNum(slider_data[i].angle)
        /\ snapped(slider_data[i], data[i]) # slider_data[i].angle
        /\ slider_data[i].value # ValueAt(data[i], slider_data[i].angle)

\* C6: for min < max, a step that divides max - min and an angle of the full
\* turn, snap_to_angle returns a whole multiple of
\* 360 / ((max - min) / step), none of the multiples is nearer to the angle,
\* and snapping the result again returns it.
C6_SnapsToNearestMultiple ==
    ret.fn = "snap_to_angle" =>
        LET range  == arg.max - arg.min
            nsteps == range \div arg.step
            a      == arg.angle.n
            out    == ret.out
        IN  /\ \E k \in 0..nsteps : out = Rat(360 * arg.step * k, range)
            /\ \A k \in -1..(nsteps + 1) :
                  Abs(out.n - a * out.d) * range
                      <= Abs(360 * arg.step * k - a * range) * out.d
            /\ ret.again = out

\* an angle halfway between two multiples went to the upper one
C6_Halfway ==
    /\ ret.fn = "snap_to_angle"
    /\ arg.step < arg.max - arg.min
    /\ 2 * (ret.out.n - arg.angle.n * ret.out.d) * (arg.max - arg.min)
          = 360 * arg.step * ret.out.d
    /\ ret.again = ret.out

\* C7: whatever the order of the configs, the sliders are listed by size,
\* no slider before a larger one, all of them listed, and the svg is as wide
\* and as high as the largest.
C7_LargestFirst ==
    ret.fn = "sort" =>
        LET n == Len(arg.list)
        IN  /\ Len(ret.data) = n
            /\ \A i, j \in 1..n : i < j => ret.data[i].size >= ret.data[j].size
            /\ \E p \in IndexOrders(n) :
                  \A i \in 1..n : /\ ret.data[i].name = arg.list[p[i]].name
                                  /\ ret.data[i].size = arg.list[p[i]].size
            /\ \A i \in 1..n : arg.list[i].size <= ret.max_size
            /\ ret.svg.width = ret.max_size
            /\ ret.svg.height = ret.max_size

\* three configs handed over smallest first, two of them of one size
C7_GivenSmallestFirst ==
    /\ ret.fn = "sort"
    /\ Len(arg.list) = 3
    /\ arg.list[1].size < arg.list[2].size
    /\ arg.list[2].size = arg.list[3].size
    /\ arg.list[2].name # arg.list[3].name
    /\ ret.data[3].size = arg.list[1].size
    /\ ret.svg.width = arg.list[3].size

\* the defaults as documented
documented ==
    [name |-> "Whatever", size |-> 100, width |-> 10, dash |-> 6, gap |-> 2,
     rotate |-> 0, min_value |-> 100, max_value |-> 200, step |-> 0,
     gap_color |-> "#977fa1", color |-> "#5f3b6f",
     bg_gap_color |-> "#d7d7d7", bg_color |-> "#c8c8c8"]

\* C8: after the defaults are filled in every recognised field holds the
\* value the config gave it, and the documented default if it gave none.
C8_DefaultsOnlyWhereOmitted ==
    ret.fn = "populate" =>
        /\ DOMAIN ret.out = DOMAIN documented
        /\ \A k \in DOMAIN documented :
              ret.out[k] = IF k \in DOMAIN arg.item THEN arg.item[k]
                           ELSE documented[k]

\* a config that gives 0 and "" for some fields and leaves others out
C8_FalsyKept ==
    /\ ret.fn = "populate"
    /\ {"min_value", "dash", "gap_color"} \subseteq DOMAIN arg.item
    /\ ret.out.min_value = 0
    /\ ret.out.dash = 0
    /\ ret.out.gap_color = ""
    /\ "size" \notin DOMAIN arg.item
    /\ ret.out.size = 100

\* C9: a mousedown on the arcs of slider i, or a touchmove sent to it,
\* updates slider i from the pointer position whether it is rotating or
\* not: the pointer becomes its mouse point, its angle the one found for the
\* pointer, its value the one of that angle snapped, and its handle moves
\* there.  No slider's rotating flag changes and every other slider keeps
\* its data and its handle.
C9_BodyEventUpdatesOnlyItsSlider ==
    [][(ev'.on = "body" /\ ev'.type \in {"mousedown", "touchmove"}) =>
          LET i   == ev'.target
              ang == find_angle(slider_data[i].a, pos_container(max_size), ev'.p)
              sn  == snap_to_angle(ang, data[i].min_value, data[i].max_value,
                                   data[i].step)
          IN  /\ slider_data'[i].m = ev'.p
              /\ slider_data'[i].angle = ang
              /\ slider_data'[i].value = ValueAt(data[i], sn)
              /\ translate'[i] = handle_translate(data[i], sn)
              /\ \A j \in DOMAIN slider_data :
                    slider_data'[j].rotating = slider_data[j].rotating
              /\ \A j \in DOMAIN slider_data \ {i} :
                    /\ slider_data'[j] = slider_data[j]
                    /\ translate'[j] = translate[j]]_vars

\* a touchmove has updated an idle slider while another one is rotating
C9_IdleSliderJumped ==
    /\ ev.type = "touchmove"
    /\ ~slider_data[ev.target].rotating
    /\ slider_data[ev.target].m = ev.p
    /\ IsNum(slider_data[ev.target].value)
    /\ \E j \in DOMAIN slider_data \ {ev.target} : slider_data[j].rotating

\* C10: every updated slider has a snapped angle from 0 to 360 and a value
\* from min_value to max_value.
C10_ValueWithinRange ==
    \A i \in DOMAIN slider_data :
        Updated(i) =>
            /\ IsNum(snapped(slider_data[i], data[i]))
            /\ Leq(Num(0), snapped(slider_data[i], data[i]))
            /\ Leq(snapped(slider_data[i], data[i]), Num(360))
            /\ IsNum(slider_data[i].value)
            /\ Leq(Num(data[i].min_value), slider_data[i].value)
            /\ Leq(slider_data[i].value, Num(data[i].max_value))

====
